---- MODULE Spec2Model ----
(***************************************************************************)
(* Model of slper/slimfile.py: the parameter-header parser (split_keyval,  *)
(* parse_params), the ragged frequency parser (parse_slim_ragged_freqs)    *)
(* and the dense frequency parser (parse_slim_freqs).                      *)
(*                                                                         *)
(* Text is a sequence of one-character strings.  A Python dict is a        *)
(* function; where the code depends on a dict's insertion order (muts) the *)
(* dict is a sequence of <<key, value>> pairs with distinct keys.          *)
(***************************************************************************)
EXTENDS Integers, Sequences, FiniteSets, TLC

VARIABLES
    \* ---- parse_params applied to a parameter string
    ppc,          \* "call" before the call, "done" after it
    param_str,    \* the argument of parse_params
    parsed,       \* what the call produced: [err, d]
    \* ---- parse_slim_ragged_freqs
    pc,           \* "open", "rows" (inside the for loop), "done", "error"
    fileHeader,   \* the first line of the file, once read
    fileRows,     \* the data rows read so far, each [gen, muts]
    params, muts, row, col, data, first_gen, gens, positions,   \* the locals
    timepoints,   \* dict: row offset -> row index
    freqs,        \* the dense matrix: [nrows, ncols, a]
    \* ---- parse_slim_freqs
    dpc,          \* "open", "loaded", "clean", "pruned", "done", "error"
    dexc,         \* the exception that ended the call, "" when none
    dfile,        \* the file: [line, loci, rows], rows without the sample column
    min_prop_samples,   \* the argument, a fraction <<numerator, denominator>>
    missing_val,  \* the argument, a number [nan, v]
    dparams, loci, samples, mat,   \* the locals
    keep_cols     \* the column mask

paramVars == <<ppc, param_str, parsed>>
raggedVars == <<pc, fileHeader, fileRows, params, muts, row, col, data,
                first_gen, gens, positions, timepoints, freqs>>
denseVars == <<dpc, dexc, dfile, min_prop_samples, missing_val, dparams, loci,
               samples, mat, keep_cols>>
vars == <<paramVars, raggedVars, denseVars>>

-----------------------------------------------------------------------------
(* Bounds                                                                  *)

\* longest enumerated parameter string
MaxLen == 4
\* most (id;pos;freq) triples in a ragged file
MaxTriples == 3
\* most data rows and most locus columns of a dense file
MaxDenseRows == 3
MaxDenseCols == 2

-----------------------------------------------------------------------------
(* Text                                                                    *)

Letters == {"a", "b", "c", "m", "u", "x", "N"}
DigitSeq == <<"0", "1", "2", "3", "4", "5", "6", "7", "8", "9">>
DigitChars == {DigitSeq[i] : i \in DOMAIN DigitSeq}
Whitespace == {"\n"}

\* the characters parameter strings are enumerated over
Alphabet == {"a", "1", "=", ";"}

\* the header of the specification's example, without its marker
ExampleParamStr == <<"m","u","=","a","b","c",";","N","=","1","0","0","0">>

ParamStrings == UNION {[1..k -> Alphabet] : k \in 0..MaxLen} \cup {ExampleParamStr}

EmptyDict == [k \in {} |-> k]

\* str.isalpha(): non-empty and every character a letter
IsAlpha(s) == Len(s) > 0 /\ \A i \in 1..Len(s) : s[i] \in Letters

\* str.strip(): leading and trailing whitespace removed
RECURSIVE Strip(_)
Strip(s) ==
    IF s = <<>> THEN s
    ELSE IF Head(s) \in Whitespace THEN Strip(Tail(s))
    ELSE IF s[Len(s)] \in Whitespace THEN Strip(SubSeq(s, 1, Len(s) - 1))
    ELSE s

\* str.split(sep): cut at every occurrence of sep; always at least one piece
RECURSIVE Split(_, _)
Split(s, sep) ==
    IF \A i \in 1..Len(s) : s[i] # sep THEN <<s>>
    ELSE LET i == CHOOSE j \in 1..Len(s) :
                      s[j] = sep /\ \A k \in 1..(j - 1) : s[k] # sep
         IN  <<SubSeq(s, 1, i - 1)>> \o Split(SubSeq(s, i + 1, Len(s)), sep)

DigitVal(c) == (CHOOSE i \in DOMAIN DigitSeq : DigitSeq[i] = c) - 1

RECURSIVE DigitsValue(_)
DigitsValue(s) ==
    IF s = <<>> THEN 0
    ELSE 10 * DigitsValue(SubSeq(s, 1, Len(s) - 1)) + DigitVal(s[Len(s)])

\* float(text) succeeds: over the characters used here (letters a b c m u x N,
\* digits, '=', ';', newline) that is a non-empty run of digits, surrounding
\* whitespace ignored
IsFloat(s) ==
    LET t == Strip(s)
    IN  Len(t) > 0 /\ \A i \in 1..Len(t) : t[i] \in DigitChars

FloatValue(s) == DigitsValue(Strip(s))

TextVal(s) == [tag |-> "text", s |-> s, n |-> 0]
NumVal(n) == [tag |-> "num", s |-> <<>>, n |-> n]

-----------------------------------------------------------------------------
(* The result type                                                         *)

\* SlimFreqs = namedtuple('SlimFreqs', (...)): no field has a default, so
\* the constructor raises TypeError unless every field is given
SlimFreqsFields == <<"params", "positions", "samples", "freqs", "times">>
NewSlimFreqsOk(args) == Len(args) = Len(SlimFreqsFields)

-----------------------------------------------------------------------------
(* split_keyval and parse_params                                           *)

\* key, val = keyval.split('=') with maxsplit=1: a value may hold '='
split_keyval_first(keyval) ==
    LET parts == Split(keyval, "=")
    IN  IF Len(parts) < 2 THEN [err |-> TRUE, key |-> <<>>, val |-> TextVal(<<>>)]
        ELSE LET key == parts[1]
                 val == SubSeq(keyval, Len(key) + 2, Len(keyval))
             IN  IF IsAlpha(key) THEN [err |-> FALSE, key |-> key, val |-> TextVal(val)]
                 ELSE IF IsFloat(val)
                      THEN [err |-> FALSE, key |-> key, val |-> NumVal(FloatValue(val))]
                      ELSE [err |-> TRUE, key |-> <<>>, val |-> TextVal(<<>>)]

\* split_keyval: the two-name unpacking raises unless split('=') gives exactly
\* two pieces; float(val) raises unless val is a number
split_keyval(keyval) ==
    LET parts == Split(keyval, "=")
    IN  IF Len(parts) # 2 THEN [err |-> TRUE, key |-> <<>>, val |-> TextVal(<<>>)]
        ELSE LET key == parts[1]
                 val == parts[2]
             IN  IF IsAlpha(key) THEN [err |-> FALSE, key |-> key, val |-> TextVal(val)]
                 ELSE IF IsFloat(val)
                      THEN [err |-> FALSE, key |-> key, val |-> NumVal(FloatValue(val))]
                      ELSE [err |-> TRUE, key |-> <<>>, val |-> TextVal(<<>>)]

\* dict(list of pairs): a later pair with the same key replaces an earlier one
DictOfPairs(kvs) ==
    [k \in {kvs[i].key : i \in DOMAIN kvs} |->
        LET last == CHOOSE i \in DOMAIN kvs :
                        kvs[i].key = k /\ \A j \in DOMAIN kvs : kvs[j].key = k => j <= i
        IN  kvs[last].val]

\* parse_params: any token's error propagates and no mapping is returned
parse_params(s) ==
    LET tokens == Split(s, ";")
        kvs == [i \in DOMAIN tokens |-> split_keyval(tokens[i])]
    IN  IF \E i \in DOMAIN kvs : kvs[i].err
        THEN [err |-> TRUE, d |-> EmptyDict]
        ELSE [err |-> FALSE, d |-> DictOfPairs(kvs)]

-----------------------------------------------------------------------------
(* parse_slim_ragged_freqs                                                 *)

\* first lines a ragged file may start with, newline included as next(fp)
\* returns it: two well-formed headers (with and without the '#' marker), a
\* token without '=', a non-alphabetic key with a non-numeric value
HeaderLines ==
    { <<"#", "a", "=", "1", "\n">>,
      <<"x", "a", "=", "1", "\n">>,
      <<"#", "a", "\n">>,
      <<"#", "1", "=", "a", "\n">> }

\* generation numbers of the rows
GenValues == {1, 2, 3}

\* the mutation records rows are made of: those of the documented example
\* (10;5;0.2  11;7;0.4  10;5;0.3), frequencies in units of 0.1; a mutation id
\* keeps one genomic position throughout a file
Triples ==
    { [mid |-> 10, pos |-> 5, freq |-> 2],
      [mid |-> 11, pos |-> 7, freq |-> 4],
      [mid |-> 10, pos |-> 5, freq |-> 3] }

\* the data rows with at least one and at most n triples
RowsUpTo(n) ==
    {[gen |-> g, muts |-> ms] :
        g \in GenValues, ms \in UNION {[1..k -> Triples] : k \in 1..n}}

Range(s) == {s[i] : i \in DOMAIN s}

\* muts[mid] = pos on an insertion-ordered dict: a new key goes last, a key
\* already present keeps its place and takes the new value
RECURSIVE DictPut(_, _, _)
DictPut(d, k, v) ==
    IF d = <<>> THEN <<(<<k, v>>)>>
    ELSE IF Head(d)[1] = k THEN <<(<<k, v>>)>> \o Tail(d)
    ELSE <<Head(d)>> \o DictPut(Tail(d), k, v)

RECURSIVE PutAll(_, _)
PutAll(d, ms) ==
    IF ms = <<>> THEN d
    ELSE PutAll(DictPut(d, Head(ms).mid, Head(ms).pos), Tail(ms))

\* the orders in which iterating set(row) may yield its elements: the
\* language leaves the order of a set open (hash order in CPython,
\* insertion order in PyPy)
SetOrders(S) ==
    {o \in [1..Cardinality(S) -> S] : \A i, j \in DOMAIN o : o[i] = o[j] => i = j}

IndexOf(o, x) == CHOOSE i \in DOMAIN o : o[i] = x

\* enumerate(...) counting from 1
TimepointsFromOne(order) == [t \in Range(order) |-> IndexOf(order, t)]

\* {t: i for i, t in enumerate(set(row))}, order being the set's iteration
Timepoints(order) == [t \in Range(order) |-> IndexOf(order, t) - 1]

\* dict((k, i) for i, k in enumerate(col)): the place of an id's last triple
KeyMapOverCol(m, c) ==
    [k \in Range(c) |->
        (CHOOSE i \in DOMAIN c : c[i] = k /\ \A j \in DOMAIN c : c[j] = k => j <= i) - 1]

\* dict((k, i) for i, k in enumerate(muts.keys()))
KeyMap(m, c) == [k \in {m[i][1] : i \in DOMAIN m} |->
                    (CHOOSE i \in DOMAIN m : m[i][1] = k) - 1]

\* shape=(len(gens), len(new_col)) guarded against an empty dimension
MatrixShapeAtLeastOne(g, nc) ==
    <<IF Len(g) = 0 THEN 1 ELSE Len(g), IF Len(nc) = 0 THEN 1 ELSE Len(nc)>>

\* shape=(len(gens), len(new_col))
MatrixShape(g, nc) == <<Len(g), Len(nc)>>

RECURSIVE SumAt(_, _, _, _, _)
SumAt(d, r, c, i, j) ==
    IF d = <<>> THEN 0
    ELSE (IF Head(r) = i /\ Head(c) = j THEN Head(d) ELSE 0)
         + SumAt(Tail(d), Tail(r), Tail(c), i, j)

\* a dense array in which a repeated coordinate keeps its last value
ToArrayLastWins(d, r, c, shape) ==
    [nrows |-> shape[1], ncols |-> shape[2],
     a |-> [ij \in (0..(shape[1] - 1)) \X (0..(shape[2] - 1)) |->
              LET hits == {k \in DOMAIN d : r[k] = ij[1] /\ c[k] = ij[2]}
              IN  IF hits = {} THEN 0
                  ELSE d[CHOOSE k \in hits : \A l \in hits : l <= k]]]

\* coo_matrix((data, (row, col)), shape).toarray(): zero-filled, the entries
\* of a repeated coordinate summed
ToArray(d, r, c, shape) ==
    [nrows |-> shape[1], ncols |-> shape[2],
     a |-> [ij \in (0..(shape[1] - 1)) \X (0..(shape[2] - 1)) |->
              SumAt(d, r, c, ij[1], ij[2])]]

EmptyMatrix == [nrows |-> 0, ncols |-> 0, a |-> [ij \in {} |-> 0]]

-----------------------------------------------------------------------------
(* parse_slim_freqs                                                        *)

\* a float64: NaN, or the number v
Num(v) == [nan |-> FALSE, v |-> v]
NaN == [nan |-> TRUE, v |-> 0]

\* first lines of a dense file, stripped as line 118 strips them
DenseHeaderLines ==
    { <<"#", "a", "=", "1">>, <<"x", "a", "=", "1">>, <<"#", "a">> }

\* what a frequency column holds in the file: the sentinel -1, or a
\* frequency (in units of 0.1)
Sentinel == -1
FileCells == {Sentinel, 0, 5}

LocusIds == <<10, 11>>

DenseFiles ==
    {[line |-> l, loci |-> SubSeq(LocusIds, 1, w), rows |-> rs] :
        l \in DenseHeaderLines,
        w \in 1..MaxDenseCols,
        rs \in UNION {[1..h -> UNION {[1..v -> FileCells] : v \in 1..MaxDenseCols}]
                        : h \in 1..MaxDenseRows}}

\* the files np.loadtxt accepts: every row as wide as the header row
WellShaped(f) == \A i \in DOMAIN f.rows : Len(f.rows[i]) = Len(f.loci)

\* min_prop_samples (default 0) as an exact fraction; quarters are exact in
\* float64, as are their products with a row count
Props == {<<0, 1>>, <<1, 4>>, <<1, 2>>, <<3, 4>>, <<1, 1>>}

\* missing_val: np.nan (the default) or 0
MissingVals == {NaN, Num(0)}

\* int(min_prop_samples * mat.shape[0]), for a fraction that is not negative
MinNSamples(prop, nrows) == (prop[1] * nrows) \div prop[2]

\* np.logical_not(np.isnan(mat)).sum(0)[j]
NonNanCount(m, j) == Cardinality({i \in DOMAIN m : ~ m[i][j].nan})

\* s[mask]: the entries of s where the mask is true, in order
RECURSIVE Compress(_, _)
Compress(s, mask) ==
    IF s = <<>> THEN <<>>
    ELSE (IF Head(mask) THEN <<Head(s)>> ELSE <<>>) \o Compress(Tail(s), Tail(mask))

-----------------------------------------------------------------------------
(* A parser that is not the one called stays idle                          *)

RaggedIdle ==
    /\ pc = "idle"
    /\ fileHeader = <<>>
    /\ fileRows = <<>>
    /\ params = EmptyDict
    /\ muts = <<>>
    /\ row = <<>>
    /\ col = <<>>
    /\ data = <<>>
    /\ first_gen = <<>>
    /\ gens = <<>>
    /\ positions = <<>>
    /\ timepoints = EmptyDict
    /\ freqs = EmptyMatrix

ParamsIdle ==
    /\ ppc = "idle"
    /\ param_str = <<>>
    /\ parsed = [err |-> FALSE, d |-> EmptyDict]

DenseIdle ==
    /\ dpc = "idle"
    /\ dexc = ""
    /\ dfile = [line |-> <<>>, loci |-> <<>>, rows |-> <<>>]
    /\ min_prop_samples = <<0, 1>>
    /\ missing_val = NaN
    /\ dparams = EmptyDict
    /\ loci = <<>>
    /\ samples = <<>>
    /\ mat = <<>>
    /\ keep_cols = <<>>

-----------------------------------------------------------------------------
(* Specification of a call of parse_params                                 *)

InitParams ==
    /\ ppc = "call"
    /\ param_str \in ParamStrings
    /\ parsed = [err |-> FALSE, d |-> EmptyDict]
    /\ RaggedIdle
    /\ DenseIdle

CallParseParams ==
    /\ ppc = "call"
    /\ parsed' = parse_params(param_str)
    /\ ppc' = "done"
    /\ UNCHANGED param_str
    /\ UNCHANGED <<raggedVars, denseVars>>

NextParams == CallParseParams

SpecParams == InitParams /\ [][NextParams]_vars

-----------------------------------------------------------------------------
(* Claims about parse_params                                               *)

EqPositions(t) == {i \in 1..Len(t) : t[i] = "="}
FirstEq(t) == CHOOSE i \in EqPositions(t) : \A j \in EqPositions(t) : i <= j
KeyAt(t, i) == SubSeq(t, 1, i - 1)
ValAt(t, i) == SubSeq(t, i + 1, Len(t))

\* the value a token cut at its i-th character stands for
TokenValue(t, i) ==
    IF IsAlpha(KeyAt(t, i)) THEN TextVal(ValAt(t, i))
    ELSE NumVal(FloatValue(ValAt(t, i)))

\* a non-alphabetic key whose value is not a number
TokenBad(t, i) == ~ IsAlpha(KeyAt(t, i)) /\ ~ IsFloat(ValAt(t, i))

\* the mapping holds, for every token, the value of the last token with the
\* same key, cut(t) being the place each token is cut at
MappingIs(d, toks, cut(_)) ==
    /\ DOMAIN d = {KeyAt(toks[i], cut(toks[i])) : i \in DOMAIN toks}
    /\ \A i \in DOMAIN toks :
         (\A j \in DOMAIN toks :
             KeyAt(toks[j], cut(toks[j])) = KeyAt(toks[i], cut(toks[i])) => j <= i)
           => d[KeyAt(toks[i], cut(toks[i]))] = TokenValue(toks[i], cut(toks[i]))

\* C6 (as claimed): each ';'-separated token is split on its first '='; an
\* alphabetic key keeps the value as text, any other key has it parsed as a
\* number; the parse fails, returning no mapping, exactly when a token has no
\* '=' or a non-alphabetic key has a non-numeric value; the header
\* #mu=abc;N=1000 makes the parse fail.
C6_SplitOnFirstEq ==
    ppc = "done" =>
        LET toks == Split(param_str, ";")
            fails == \E i \in DOMAIN toks :
                        \/ EqPositions(toks[i]) = {}
                        \/ TokenBad(toks[i], FirstEq(toks[i]))
        IN  /\ parsed.err <=> fails
            /\ parsed.err => parsed.d = EmptyDict
            /\ ~ parsed.err => MappingIs(parsed.d, toks, FirstEq)
            /\ param_str = ExampleParamStr => parsed.err

\* C6 (amended): each ';'-separated token is split on '='; an alphabetic key
\* keeps the value as text, any other key has it parsed as a number; the
\* parse fails, returning no mapping, exactly when a token does not hold
\* exactly one '=' or a non-alphabetic key has a non-numeric value; the
\* header #mu=abc;N=1000, whose keys are both alphabetic, parses without
\* error to mu -> "abc", N -> "1000".
C6_SplitOnOnlyEq ==
    ppc = "done" =>
        LET toks == Split(param_str, ";")
            fails == \E i \in DOMAIN toks :
                        \/ Cardinality(EqPositions(toks[i])) # 1
                        \/ TokenBad(toks[i], FirstEq(toks[i]))
        IN  /\ parsed.err <=> fails
            /\ parsed.err => parsed.d = EmptyDict
            /\ ~ parsed.err => MappingIs(parsed.d, toks, FirstEq)
            /\ param_str = ExampleParamStr =>
                  /\ ~ parsed.err
                  /\ DOMAIN parsed.d = {<<"m", "u">>, <<"N">>}
                  /\ parsed.d[<<"m", "u">>] = TextVal(<<"a", "b", "c">>)
                  /\ parsed.d[<<"N">>] = TextVal(<<"1", "0", "0", "0">>)

\* the example header has been parsed, without error
C6_Witness == ppc = "done" /\ param_str = ExampleParamStr /\ ~ parsed.err

-----------------------------------------------------------------------------
(* Specification of a call of parse_slim_ragged_freqs                      *)

\* lines 52-57: the locals before the file is opened; None is <<>>
InitRagged ==
    /\ pc = "open"
    /\ fileHeader = <<>>
    /\ fileRows = <<>>
    /\ params = EmptyDict
    /\ muts = <<>>
    /\ row = <<>>
    /\ col = <<>>
    /\ data = <<>>
    /\ first_gen = <<>>
    /\ gens = <<>>
    /\ positions = <<>>
    /\ timepoints = EmptyDict
    /\ freqs = EmptyMatrix
    /\ ParamsIdle
    /\ DenseIdle

\* lines 60-61: line = next(fp); params = parse_params(line[1:])
RaggedReadHeader ==
    /\ pc = "open"
    /\ \E line \in HeaderLines :
         LET res == parse_params(Tail(line))
         IN  /\ fileHeader' = line
             /\ IF res.err
                THEN pc' = "error" /\ UNCHANGED params
                ELSE pc' = "rows" /\ params' = res.d
    /\ UNCHANGED <<fileRows, muts, row, col, data, first_gen, gens, positions,
                   timepoints, freqs>>
    /\ UNCHANGED <<paramVars, denseVars>>

\* lines 62-75: one turn of the for loop over the remaining lines
RaggedReadRow ==
    /\ pc = "rows"
    /\ Len(data) < MaxTriples
    /\ \E r \in RowsUpTo(MaxTriples - Len(data)) :
         LET fg == IF first_gen = <<>> THEN r.gen ELSE first_gen[1]
             n == Len(r.muts)
         IN  /\ fileRows' = Append(fileRows, r)
             /\ gens' = Append(gens, r.gen)
             /\ first_gen' = <<fg>>
             /\ muts' = PutAll(muts, r.muts)
             /\ positions' = positions \o [i \in 1..n |-> r.muts[i].pos]
             /\ row' = row \o [i \in 1..n |-> r.gen - fg]
             /\ col' = col \o [i \in 1..n |-> r.muts[i].mid]
             /\ data' = data \o [i \in 1..n |-> r.muts[i].freq]
    /\ UNCHANGED <<pc, fileHeader, params, timepoints, freqs>>
    /\ UNCHANGED <<paramVars, denseVars>>

\* lines 76-92: the file is exhausted; remap, build the matrix and return
\* SlimFreqs(params, positions, gens, matrix, timepoints).  The position
\* index loci / loci_dict of lines 83-88 is built and dropped
RaggedFinish ==
    /\ pc = "rows"
    /\ \E order \in SetOrders(Range(row)) :
         LET tp == Timepoints(order)
             newrow == [k \in DOMAIN row |-> tp[row[k]]]
             key_map == KeyMap(muts, col)
             new_col == [k \in DOMAIN col |-> key_map[col[k]]]
         IN  /\ timepoints' = tp
             /\ row' = newrow
             /\ freqs' = ToArray(data, newrow, new_col, MatrixShape(gens, new_col))
    /\ pc' = IF NewSlimFreqsOk(<<"params", "positions", "gens", "freqs", "timepoints">>)
             THEN "done" ELSE "error"
    /\ UNCHANGED <<fileHeader, fileRows, params, muts, col, data, first_gen,
                   gens, positions>>
    /\ UNCHANGED <<paramVars, denseVars>>

NextRagged == RaggedReadHeader \/ RaggedReadRow \/ RaggedFinish

SpecRagged == InitRagged /\ [][NextRagged]_vars

-----------------------------------------------------------------------------
(* The ragged file as written, for stating what the parser returns         *)

RECURSIVE Flatten(_)
Flatten(rows) ==
    IF rows = <<>> THEN <<>>
    ELSE [i \in DOMAIN Head(rows).muts |->
             [gen |-> Head(rows).gen, mid |-> Head(rows).muts[i].mid,
              pos |-> Head(rows).muts[i].pos, freq |-> Head(rows).muts[i].freq]]
         \o Flatten(Tail(rows))

FileTriples == Flatten(fileRows)
GenSeq == [i \in DOMAIN fileRows |-> fileRows[i].gen]
IdSeq == [k \in DOMAIN FileTriples |-> FileTriples[k].mid]
FileGens == Range(GenSeq)
FileIds == Range(IdSeq)
FileFirstGen == IF fileRows = <<>> THEN 0 ELSE fileRows[1].gen

FirstAt(s, x) == CHOOSE i \in DOMAIN s : s[i] = x /\ \A j \in 1..(i - 1) : s[j] # x

\* how many distinct values precede the first occurrence of x in s
AppearanceRank(s, x) == Cardinality({s[j] : j \in 1..(FirstAt(s, x) - 1)})

NoRepeatedPair ==
    LET ts == FileTriples
    IN  \A k, l \in DOMAIN ts :
            (ts[k].gen = ts[l].gen /\ ts[k].mid = ts[l].mid) => k = l

Cells == (0..(freqs.nrows - 1)) \X (0..(freqs.ncols - 1))

RECURSIVE PairTotal(_, _, _)
PairTotal(ts, g, m) ==
    IF ts = <<>> THEN 0
    ELSE (IF Head(ts).gen = g /\ Head(ts).mid = m THEN Head(ts).freq ELSE 0)
         + PairTotal(Tail(ts), g, m)

-----------------------------------------------------------------------------
(* Claims about parse_slim_ragged_freqs                                    *)

\* C1: the returned matrix has as many rows as the file has distinct
\* generation values and as many columns as it has distinct mutation ids.
C1_ShapeIsDistinctCounts ==
    pc = "done" =>
        /\ freqs.nrows = Cardinality(FileGens)
        /\ freqs.ncols = Cardinality(FileIds)

C4_OnePositionPerColumn ==
    pc = "done" =>
        LET ts == FileTriples
            ids == [k \in DOMAIN ts |-> ts[k].mid]
        IN  /\ Len(positions) = freqs.ncols
            /\ Len(positions) = Cardinality(Range(ids))
            /\ \A m \in Range(ids) :
                 positions[AppearanceRank(ids, m) + 1] = ts[FirstAt(ids, m)].pos

\* C5: the row in which a generation's triples are stored is the rank of the
\* generation in order of first appearance in the file.
C5_RowIsAppearanceRank ==
    pc = "done" =>
        LET ts == FileTriples
            gs == GenSeq
        IN  \A k \in DOMAIN ts : row[k] = AppearanceRank(gs, ts[k].gen)

\* C7: once the first line has been read, a first line that does not begin
\* with '#' has made the parse fail, before any data row is read.
C7_MissingMarkerFails ==
    (pc # "open" /\ Head(fileHeader) # "#") => (pc = "error" /\ fileRows = <<>>)

\* C9: a file with a well-formed header line and no data rows is parsed to
\* the end, and the result has a matrix of zero rows and zero columns, no
\* positions, no generations and an empty timepoints mapping.
C9_HeaderOnlyIsEmpty ==
    /\ (pc = "rows" /\ fileRows = <<>>) => ENABLED RaggedFinish
    /\ (pc = "done" /\ fileRows = <<>>) =>
          /\ freqs.nrows = 0
          /\ freqs.ncols = 0
          /\ DOMAIN freqs.a = {}
          /\ positions = <<>>
          /\ gens = <<>>
          /\ DOMAIN timepoints = {}

\* the parse of a header-only file has returned
C9_Witness == pc = "done" /\ fileRows = <<>> /\ Head(fileHeader) = "#"

\* C10: the cell at the row of a generation and the column of an id holds the
\* sum of the frequencies of all triples of the file with that generation
\* and that id.
C10_RepeatedPairsAreSummed ==
    pc = "done" =>
        LET ts == FileTriples
            ids == [k \in DOMAIN ts |-> ts[k].mid]
            colOf == [m \in Range(ids) |-> AppearanceRank(ids, m)]
        IN  \A k \in DOMAIN ts :
                freqs.a[<<timepoints[ts[k].gen - FileFirstGen], colOf[ts[k].mid]>>]
                    = PairTotal(ts, ts[k].gen, ts[k].mid)

\* a parse of a file in which one pair occurs twice on one row and again on a
\* later row of the same generation, with different frequencies
C10_Witness ==
    /\ pc = "done"
    /\ \E i, j \in DOMAIN fileRows :
         /\ i < j
         /\ fileRows[i].gen = fileRows[j].gen
         /\ Len(fileRows[i].muts) = 2
         /\ fileRows[i].muts[1].mid = fileRows[i].muts[2].mid
         /\ fileRows[i].muts[1].freq # fileRows[i].muts[2].freq
         /\ fileRows[j].muts[1].mid = fileRows[i].muts[1].mid

-----------------------------------------------------------------------------
(* Specification of a call of parse_slim_freqs                             *)

InitDense ==
    /\ dpc = "open"
    /\ dexc = ""
    /\ dfile \in {f \in DenseFiles : WellShaped(f)}
    /\ min_prop_samples \in Props
    /\ missing_val \in MissingVals
    /\ dparams = EmptyDict
    /\ loci = <<>>
    /\ samples = <<>>
    /\ mat = <<>>
    /\ keep_cols = <<>>
    /\ ParamsIdle
    /\ RaggedIdle

\* lines 109-129: the locus header, the marker check, the parameters, and
\* np.loadtxt of the rows, the sample index (the row number) in column 0
DenseLoad ==
    /\ dpc = "open"
    /\ loci' = dfile.loci
    /\ IF Head(dfile.line) # "#"
       THEN dpc' = "error" /\ dexc' = "ValueError" /\ UNCHANGED <<dparams, mat>>
       ELSE LET res == parse_params(Tail(dfile.line))
            IN  IF res.err
                THEN dpc' = "error" /\ dexc' = "ValueError" /\ UNCHANGED <<dparams, mat>>
                ELSE /\ dpc' = "loaded"
                     /\ dparams' = res.d
                     /\ mat' = [i \in DOMAIN dfile.rows |->
                                  <<Num(i)>> \o [j \in DOMAIN dfile.rows[i] |->
                                                    Num(dfile.rows[i][j])]]
                     /\ UNCHANGED dexc
    /\ UNCHANGED <<dfile, min_prop_samples, missing_val, samples, keep_cols>>
    /\ UNCHANGED <<paramVars, raggedVars>>

\* lines 131-135: samples = mat[:,0]; the sample column deleted; negative
\* entries replaced by missing_val.  np.loadtxt gives a one-dimensional array
\* for a single row, on which mat[:,0] raises IndexError
DenseClean ==
    /\ dpc = "loaded"
    /\ IF Len(mat) < 2
       THEN dpc' = "error" /\ dexc' = "IndexError" /\ UNCHANGED <<samples, mat>>
       ELSE /\ dpc' = "clean"
            /\ samples' = [i \in DOMAIN mat |-> mat[i][1].v]
            /\ mat' = [i \in DOMAIN mat |->
                         [j \in 1..(Len(mat[i]) - 1) |->
                            IF mat[i][j + 1].v < 0 THEN missing_val ELSE mat[i][j + 1]]]
            /\ UNCHANGED dexc
    /\ UNCHANGED <<dfile, min_prop_samples, missing_val, dparams, loci, keep_cols>>
    /\ UNCHANGED <<paramVars, raggedVars>>

\* lines 137-144: the threshold, the column mask, and the pruning of the
\* matrix and of the loci
DensePrune ==
    /\ dpc = "clean"
    /\ LET min_nsamples == MinNSamples(min_prop_samples, Len(mat))
           keep == [j \in DOMAIN loci |-> NonNanCount(mat, j) > min_nsamples]
       IN  /\ keep_cols' = keep
           /\ mat' = [i \in DOMAIN mat |-> Compress(mat[i], keep)]
           /\ loci' = Compress(loci, keep)
    /\ dpc' = "pruned"
    /\ UNCHANGED <<dexc, dfile, min_prop_samples, missing_val, dparams, samples>>
    /\ UNCHANGED <<paramVars, raggedVars>>

\* line 145: return SlimFreqs(params, loci, samples, mat)
DenseReturn ==
    /\ dpc = "pruned"
    /\ IF NewSlimFreqsOk(<<"params", "loci", "samples", "mat">>)
       THEN dpc' = "done" /\ UNCHANGED dexc
       ELSE dpc' = "error" /\ dexc' = "TypeError"
    /\ UNCHANGED <<dfile, min_prop_samples, missing_val, dparams, loci, samples,
                   mat, keep_cols>>
    /\ UNCHANGED <<paramVars, raggedVars>>

NextDense == DenseLoad \/ DenseClean \/ DensePrune \/ DenseReturn

SpecDense == InitDense /\ [][NextDense]_vars

-----------------------------------------------------------------------------
(* Claims about parse_slim_freqs                                           *)

\* C8: the call returns a result; a locus column is kept if and only if the
\* number of its entries that are not the sentinel -1 in the file is greater
\* than floor(min_prop_samples * number of rows), whatever missing_val is,
\* and the loci of the result are those of the kept columns.
C8_KeptIffEnoughSamples ==
    /\ dexc # "TypeError"
    /\ dpc \in {"pruned", "done"} =>
          LET nrows == Len(dfile.rows)
              present(j) ==
                  Cardinality({i \in DOMAIN dfile.rows : dfile.rows[i][j] # Sentinel})
              wanted == [j \in DOMAIN dfile.loci |->
                           present(j) > (min_prop_samples[1] * nrows) \div min_prop_samples[2]]
          IN  /\ keep_cols = wanted
              /\ loci = Compress(dfile.loci, wanted)
              /\ \A i \in DOMAIN mat : Len(mat[i]) = Len(loci)

====
